---- MODULE Spec2Model ----
(***************************************************************************)
(* ESDAR-Checker (Email Security DNS Advanced Records Checker).            *)
(*                                                                         *)
(* The command-line layer (esdar-checker_v2.py, csv_helper.py, helper.py,  *)
(* terminal_message_handler.py) is modelled from its source.  The          *)
(* resolution engine it calls, perform_complete_dns_check of dns_lookup,   *)
(* is modelled from the design document (sections 3, 4.3, 4.4, 4.5, 7).    *)
(*                                                                         *)
(* A Python str is a sequence of one-character strings, so that the        *)
(* substring tests ('error' in s.lower()) of the display code are computed *)
(* character by character.  "U+2014" stands for the em dash.               *)
(***************************************************************************)
EXTENDS Integers, Sequences, FiniteSets, TLC

VARIABLES
    domain,        \* process_single_domain: the domain being checked
    selectors,     \* the parsed --selector/--selectors list
    auto_discover, \* --auto_discover_dkim
    argSelectors,  \* engine argument: [none, list] (None or a list)
    argAuto,       \* engine argument auto_discover_dkim
    pc,            \* position in the call
    selIdx,        \* selector discovery: index of the next selector
    result,        \* the DomainResult under construction / returned
    qlog,          \* every DNS query issued so far, with its outcome
    printed,       \* how each field was printed: found/not_found/partial
    domains,       \* main: the cleaned-up domain list
    skip_errors,   \* --skip_errors
    append,        \* --append yes
    i,             \* process_multiple_domains: enumerate(domains, 1)
    results,       \* process_multiple_domains: results collected so far
    successful,    \* process_multiple_domains: counter
    failed,        \* process_multiple_domains: counter
    csvFile,       \* the output file: [exists, rows]
    exitStatus,    \* "running", "exit0" (main returned) or "exit1" (sys.exit(1))
    checked,       \* history: every perform_complete_dns_check call and how it ended
    csvCalls,      \* history: every csv_helper call, its arguments and how it ended
    call,          \* a helper function under call: its arguments
    retval         \* what the helper function returned

cliVars == <<domains, skip_errors, append, i, results, successful, failed,
             csvFile, exitStatus, checked, csvCalls>>

vars == <<domain, selectors, auto_discover, argSelectors, argAuto, pc,
          selIdx, result, qlog, printed, domains, skip_errors, append, i,
          results, successful, failed, csvFile, exitStatus, checked, csvCalls,
          call, retval>>

---------------------------------------------------------------------------
(* Bounds of the exploration *)

\* longest explicit selector list explored
MaxSelectors == 2
\* length of the prefix of the candidate selector list explored
NumCandidates == 2
\* longest domain list explored
MaxDomains == 3
\* longest record value passed to replace_characters
MaxRecordLen == 3
\* most entries of the domain list handed to cleanup_domains_list
MaxRawDomains == 3

\* most lines of a domains file
MaxFileLines == 4

\* longest --selector / --selectors value
MaxArgLen == 3

\* most csv_helper calls explored in a row
MaxCalls == 3

\* No helper function is under call
NoCall == [fn |-> "none"]

---------------------------------------------------------------------------
(* Python str operations *)

UpperToLower ==
    "A" :> "a" @@ "B" :> "b" @@ "C" :> "c" @@ "D" :> "d" @@ "E" :> "e" @@
    "F" :> "f" @@ "G" :> "g" @@ "H" :> "h" @@ "I" :> "i" @@ "J" :> "j" @@
    "K" :> "k" @@ "L" :> "l" @@ "M" :> "m" @@ "N" :> "n" @@ "O" :> "o" @@
    "P" :> "p" @@ "Q" :> "q" @@ "R" :> "r" @@ "S" :> "s" @@ "T" :> "t" @@
    "U" :> "u" @@ "V" :> "v" @@ "W" :> "w" @@ "X" :> "x" @@ "Y" :> "y" @@
    "Z" :> "z"

\* str.lower()
lower(s) ==
    [k \in 1..Len(s) |->
        IF s[k] \in DOMAIN UpperToLower THEN UpperToLower[s[k]] ELSE s[k]]

\* sub in s
Contains(sub, s) ==
    \E k \in 0..(Len(s) - Len(sub)) :
        \A j \in 1..Len(sub) : s[k + j] = sub[j]

\* sep.join(list)
RECURSIVE join(_, _)
join(sep, list) ==
    IF list = <<>> THEN <<>>
    ELSE IF Len(list) = 1 THEN list[1]
    ELSE list[1] \o sep \o join(sep, Tail(list))

\* Mutant of replace_characters: only the first occurrence is replaced
replace_first_character(record_to_check, char_to_replace, new_char) ==
    IF record_to_check = <<>> THEN <<>>
    ELSE [k \in 1..Len(record_to_check) |->
            IF /\ record_to_check[k] = char_to_replace
               /\ \A j \in 1..(k - 1) : record_to_check[j] # char_to_replace
            THEN new_char
            ELSE record_to_check[k]]

\* helper.replace_characters: str.replace of one character by another
replace_characters(record_to_check, char_to_replace, new_char) ==
    IF record_to_check = <<>> THEN <<>>
    ELSE [k \in 1..Len(record_to_check) |->
            IF record_to_check[k] = char_to_replace THEN new_char
            ELSE record_to_check[k]]

---------------------------------------------------------------------------
(* Resolution engine: data model (design document, section 3) *)

Families == {"MX", "SPF", "DMARC", "DKIM"}

\* The candidate selector list of auto-discovery, in its defined order.
AllCandidates ==
    << <<"d","e","f","a","u","l","t">>, <<"d","k","i","m">>, <<"m","a","i","l">>, <<"e","m","a","i","l">>, <<"g","o","o","g","l","e">>,
       <<"s","e","l","e","c","t","o","r","1">>, <<"s","e","l","e","c","t","o","r","2">>, <<"k","1">>, <<"s","1">> >>

CandidateSelectors ==
    SubSeq(AllCandidates, 1,
           IF NumCandidates < Len(AllCandidates) THEN NumCandidates
           ELSE Len(AllCandidates))

\* Record values a resolver may return.  Some hold the words the display
\* code searches for: they are legal DNS data.
FoundValues(type) ==
    CASE type = "MX"    -> { <<"m","x",".","a",".","c","o","m">>, <<"m","x",".","t","e","r","r","o","r",".","i","o">> }
      [] type = "SPF"   -> { <<"v","=","s","p","f","1"," ","-","a","l","l">>, <<"v","=","s","p","f","1"," ","a",":","t","i","m","e","o","u","t",".","i","o">> }
      [] type = "DMARC" -> { <<"v","=","D","M","A","R","C","1",";"," ","p","=","n","o","n","e">> }
      [] type = "DKIM"  -> { <<"v","=","D","K","I","M","1",";"," ","p","=","M","I","G">> }

QueryErrorDetails == { <<"S","E","R","V","F","A","I","L">> }

\* QueryOutcome: Found(value) | NotFound | NonexistentDomain | Timeout |
\* QueryError(detail)
QueryOutcome(type) ==
    [kind : {"Found"}, text : FoundValues(type)]
    \cup [kind : {"NotFound", "NonexistentDomain", "Timeout"}, text : {<<>>}]
    \cup [kind : {"QueryError"}, text : QueryErrorDetails]

\* Mutant of IsError: a QueryError is not recorded
IsErrorTimeoutOnly(out) == out.kind = "Timeout"

\* Mutant of IsError: an absent record is recorded as an error
IsErrorOrAbsent(out) == out.kind \in {"Timeout", "QueryError", "NotFound"}

\* Whether an outcome is a diagnostic for the errors sequence (sections 4.5, 7)
IsError(out) == out.kind \in {"Timeout", "QueryError"}

\* <TYPE> of the phrase table
TypeName(type) ==
    CASE type = "MX"    -> <<"M","X">>
      [] type = "SPF"   -> <<"S","P","F">>
      [] type = "DMARC" -> <<"D","M","A","R","C">>
      [] type = "DKIM"  -> <<"D","K","I","M">>

\* Mutant of FormatOutcome: NXDOMAIN is phrased like an absent record
FormatOutcomeNxAsAbsent(type, out) ==
    CASE out.kind = "Found" ->
            IF type \in {"SPF", "DMARC"}
            THEN replace_characters(out.text, ";", ",")
            ELSE out.text
      [] out.kind \in {"NotFound", "NonexistentDomain"} ->
            <<"N","o"," ">> \o TypeName(type) \o <<" ","r","e","c","o","r","d"," ","f","o","u","n","d">>
      [] out.kind = "Timeout" -> <<"D","N","S"," ","q","u","e","r","y"," ","t","i","m","e","o","u","t">>
      [] out.kind = "QueryError" -> <<"e","r","r","o","r",":"," ">> \o out.text

\* The phrase table of section 4.3
FormatOutcome(type, out) ==
    CASE out.kind = "Found" ->
            IF type \in {"SPF", "DMARC"}
            THEN replace_characters(out.text, ";", ",")
            ELSE out.text
      [] out.kind = "NotFound" ->
            <<"N","o"," ">> \o TypeName(type) \o <<" ","r","e","c","o","r","d"," ","f","o","u","n","d">>
      [] out.kind = "NonexistentDomain" -> <<"D","o","m","a","i","n"," ","d","o","e","s"," ","n","o","t"," ","e","x","i","s","t">>
      [] out.kind = "Timeout" -> <<"D","N","S"," ","q","u","e","r","y"," ","t","i","m","e","o","u","t">>
      [] out.kind = "QueryError" -> <<"e","r","r","o","r",":"," ">> \o out.text

\* One entry of DomainResult.errors: which query failed, and how
ErrorEntry(type, selector, out) ==
    IF type = "DKIM"
    THEN <<"D","K","I","M"," ","(">> \o selector \o <<")",":"," ">> \o FormatOutcome(type, out)
    ELSE TypeName(type) \o <<":"," ">> \o FormatOutcome(type, out)

\* errors is additive: a Timeout or QueryError appends, nothing else does
AppendError(errors, type, selector, out) ==
    IF IsError(out) THEN Append(errors, ErrorEntry(type, selector, out))
    ELSE errors

\* The three aggregate DKIM reports of section 4.4
NoValidSelectors == <<"N","o"," ","v","a","l","i","d"," ","s","e","l","e","c","t","o","r","s"," ","f","o","u","n","d">>
NoSelectorsProvided == <<"N","o"," ","s","e","l","e","c","t","o","r","s"," ","p","r","o","v","i","d","e","d">>
NoDkimTested ==
    <<"N","o"," ","D","K","I","M"," ","r","e","c","o","r","d"," ","f","o","u","n","d"," ","U+2014"," ","t","e","s","t","e","d"," ","c","o","m","m","o","n"," ","s","e","l","e","c","t","o","r","s",":"," ">>
        \o join(<<","," ">>, CandidateSelectors)

\* Section 4.4: the ordered list selector discovery walks
DiscoveryList(explicitSelectors, autoDiscover) ==
    IF explicitSelectors # <<>> THEN explicitSelectors
    ELSE IF autoDiscover THEN CandidateSelectors
    ELSE <<>>

\* Section 4.4: the selector queried at step idx of the walk
SelectorAt(list, idx) == list[idx]

\* Section 4.4, steps 1 and 2: the report when no selector of the list matched
NoneMatched(explicitSelectors) ==
    IF explicitSelectors # <<>> THEN NoValidSelectors ELSE NoDkimTested

\* Mutant of NextStrategy: a Timeout or QueryError ends the check
NextStrategyAbortOnError(type, out) ==
    IF out.kind \in {"Timeout", "QueryError"} THEN "display"
    ELSE CASE type = "MX"    -> "spf"
           [] type = "SPF"   -> "dmarc"
           [] type = "DMARC" -> "dkim"

\* Section 4.5: the aggregator's next strategy; the outcome of the one just
\* run does not matter
NextStrategy(type, out) ==
    CASE type = "MX"    -> "spf"
      [] type = "SPF"   -> "dmarc"
      [] type = "DMARC" -> "dkim"

\* Section 4.4: discovery stops at the first Found, else moves on
StopsDiscovery(out) == out.kind = "Found"

EmptyResult(d) ==
    [domain |-> d, mx |-> <<>>, spf |-> <<>>, dkim |-> <<>>, dmarc |-> <<>>,
     errors |-> <<>>]

NoPrint == [mx |-> "none", spf |-> "none", dkim |-> "none", dmarc |-> "none"]

QueryRecord(type, selector, out) ==
    [type |-> type, selector |-> selector, out |-> out]

---------------------------------------------------------------------------
(* Command line: the display classification of process_single_domain and   *)
(* process_multiple_domains                                                *)

\* The test of the MX, SPF and DMARC lines; marker is 'No MX', 'No SPF' or
\* 'No DMARC'
ClassifyRecord(marker, s) ==
    IF \/ Contains(marker, s)
       \/ Contains(<<"d","o","e","s"," ","n","o","t"," ","e","x","i","s","t">>, s)
       \/ Contains(<<"t","i","m","e","o","u","t">>, s)
       \/ Contains(<<"e","r","r","o","r">>, lower(s))
    THEN "not_found"
    ELSE "found"

\* The test of the DKIM line
ClassifyDkim(s) ==
    LET dkim_lower == lower(s) IN
    IF \/ Contains(<<"n","o"," ","d","k","i","m">>, dkim_lower)
       \/ Contains(<<"n","o"," ","s","e","l","e","c","t","o","r">>, dkim_lower)
       \/ Contains(<<"n","o"," ","s","e","l","e","c","t","o","r","s"," ","p","r","o","v","i","d","e","d">>, dkim_lower)
       \/ Contains(<<"n","o"," ","v","a","l","i","d"," ","s","e","l","e","c","t","o","r","s">>, dkim_lower)
       \/ Contains(<<"d","o","e","s"," ","n","o","t"," ","e","x","i","s","t">>, s)
       \/ Contains(<<"t","i","m","e","o","u","t">>, s)
       \/ Contains(<<"e","r","r","o","r">>, dkim_lower)
    THEN IF /\ Contains(<<"n","o"," ","s","e","l","e","c","t","o","r","s"," ","p","r","o","v","i","d","e","d">>, dkim_lower)
            /\ ~Contains(<<"t","e","s","t","e","d"," ","c","o","m","m","o","n"," ","s","e","l","e","c","t","o","r","s">>, dkim_lower)
         THEN "partial"
         ELSE "not_found"
    ELSE "found"

\* The four printed lines of one result
PrintResult(r) ==
    [mx    |-> ClassifyRecord(<<"N","o"," ","M","X">>, r.mx),
     spf   |-> ClassifyRecord(<<"N","o"," ","S","P","F">>, r.spf),
     dkim  |-> ClassifyDkim(r.dkim),
     dmarc |-> ClassifyRecord(<<"N","o"," ","D","M","A","R","C">>, r.dmarc)]

\* Mutant of SelectorsArgument: the list is passed in another order
SelectorsArgumentReversed(sels) ==
    IF sels # <<>>
    THEN [none |-> FALSE,
          list |-> [k \in 1..Len(sels) |-> sels[Len(sels) + 1 - k]]]
    ELSE [none |-> TRUE, list |-> <<>>]

\* process_single_domain, line 159: selectors if selectors else None
SelectorsArgument(sels) ==
    IF sels # <<>> THEN [none |-> FALSE, list |-> sels]
    ELSE [none |-> TRUE, list |-> <<>>]

\* Mutant of AutoDiscoverArgument: the flag is not passed on
AutoDiscoverAlways(flag) == TRUE

\* process_single_domain, line 159: auto_discover_dkim=auto_discover_dkim
AutoDiscoverArgument(flag) == flag

---------------------------------------------------------------------------
(* terminal_message_handler and csv_helper *)

\* print_error(message, fatal=True): the default of fatal
DefaultFatal == TRUE

\* print_error: prints, then sys.exit(1) if fatal
print_error(fatal) == IF fatal THEN "SystemExit" ELSE "returns"

NoFile == [exists |-> FALSE, rows |-> <<>>]

HeaderRow ==
    << <<"D","o","m","a","i","n">>, <<"M","X"," ","R","e","c","o","r","d">>, <<"S","P","F"," ","R","e","c","o","r","d">>, <<"D","K","I","M"," ","R","e","c","o","r","d">>,
       <<"D","M","A","R","C"," ","R","e","c","o","r","d">> >>

\* write_results_to_csv, lines 99-106: the row of one result
ResultRow(r) == <<r.domain, r.mx, r.spf, r.dkim, r.dmarc>>

ResultRows(rs) == [k \in 1..Len(rs) |-> ResultRow(rs[k])]

\* What the file system does to a call: nothing, or its open() raises
\* PermissionError or another OSError, or open() succeeds and the write
\* raises an OSError (a full disk); every one of them ends in an except
\* clause
OpenFaults == {"PermissionError", "OSError"}

Faults == {"none", "OSErrorOnWrite"} \cup OpenFaults

\* An except clause of csv_helper: print_error(...), then return False
ExceptClause == 
    IF print_error(DefaultFatal) = "SystemExit" THEN "SystemExit" ELSE "False"

\* open(filepath, mode): 'w' creates or truncates, 'a' creates or keeps
OpenedFile(file, mode) ==
    [exists |-> TRUE, rows |-> IF mode = "a" THEN file.rows ELSE <<>>]

\* create_csv_file_with_header: the file after the call, and how it ended.
\* A write that raises leaves the file as open() made it.
create_csv_file_with_header(file, fault) ==
    IF fault \in OpenFaults
    THEN [file |-> file, ret |-> ExceptClause]
    ELSE IF fault = "OSErrorOnWrite"
    THEN [file |-> OpenedFile(file, "w"), ret |-> ExceptClause]
    ELSE [file |-> [exists |-> TRUE,
                    rows   |-> OpenedFile(file, "w").rows \o <<HeaderRow>>],
          ret |-> "True"]

\* Mutant of write_results_to_csv: append mode writes the header as well
write_results_to_csv_header_always(rs, app, file, fault) ==
    IF rs = <<>>
    THEN [file |-> file, ret |-> "False"]
    ELSE IF fault \in OpenFaults
    THEN [file |-> file, ret |-> ExceptClause]
    ELSE LET mode == IF app THEN "a" ELSE "w"
         IN IF fault = "OSErrorOnWrite"
            THEN [file |-> OpenedFile(file, mode), ret |-> ExceptClause]
            ELSE [file |-> [exists |-> TRUE,
                            rows   |-> OpenedFile(file, mode).rows
                                       \o <<HeaderRow>>
                                       \o ResultRows(rs)],
                  ret |-> "True"]

\* write_results_to_csv: the file after the call, and how it ended.
\* A write that raises leaves the file as open() made it.
write_results_to_csv(rs, app, file, fault) ==
    IF rs = <<>>
    THEN [file |-> file, ret |-> "False"]
    ELSE IF fault \in OpenFaults
    THEN [file |-> file, ret |-> ExceptClause]
    ELSE LET file_exists  == file.exists
             mode         == IF app THEN "a" ELSE "w"
             write_header == IF app THEN ~file_exists ELSE TRUE
         IN IF fault = "OSErrorOnWrite"
            THEN [file |-> OpenedFile(file, mode), ret |-> ExceptClause]
            ELSE [file |-> [exists |-> TRUE,
                            rows   |-> OpenedFile(file, mode).rows
                                       \o (IF write_header THEN <<HeaderRow>> ELSE <<>>)
                                       \o ResultRows(rs)],
                  ret |-> "True"]

CsvCall(op, rs, app, fault, ret) ==
    [op |-> op, results |-> rs, append |-> app, fault |-> fault, ret |-> ret]

---------------------------------------------------------------------------
(* Inputs *)

SelectorPool == << <<"s","1">>, <<"g","o","o","g","l","e">>, <<"k","2">>, <<"m","a","i","l">> >>

SelectorNames ==
    { SelectorPool[k] : k \in 1..(IF MaxSelectors < Len(SelectorPool)
                                  THEN MaxSelectors ELSE Len(SelectorPool)) }

\* parse_selectors returns a duplicate-free list
SelectorLists ==
    UNION { { s \in [1..n -> SelectorNames] :
                \A a, b \in 1..n : a # b => s[a] # s[b] } : n \in 0..MaxSelectors }

---------------------------------------------------------------------------
(* Spec: one call of process_single_domain up to the CSV write, with the   *)
(* engine's queries as single steps                                        *)

Init ==
    /\ call = NoCall
    /\ retval = <<>>
    /\ domain = <<"a",".","c","o","m">>
    /\ selectors \in SelectorLists
    /\ auto_discover \in BOOLEAN
    /\ argSelectors = [none |-> TRUE, list |-> <<>>]
    /\ argAuto = FALSE
    /\ pc = "call"
    /\ selIdx = 1
    /\ result = EmptyResult(<<>>)
    /\ qlog = <<>>
    /\ printed = NoPrint
    /\ domains = <<domain>>
    /\ skip_errors = FALSE
    /\ append = FALSE
    /\ i = 1
    /\ results = <<>>
    /\ successful = 0
    /\ failed = 0
    /\ csvFile = NoFile
    /\ exitStatus = "running"
    /\ checked = <<>>
    /\ csvCalls = <<>>

\* process_single_domain, line 159: the call of perform_complete_dns_check
CallCheck ==
    /\ pc = "call"
    /\ argSelectors' = SelectorsArgument(selectors)
    /\ argAuto' = AutoDiscoverArgument(auto_discover)
    /\ result' = EmptyResult(domain)
    /\ selIdx' = 1
    /\ pc' = "mx"
    /\ UNCHANGED <<call, retval, domain, selectors, auto_discover, qlog, printed, cliVars>>

\* One of the MX, SPF, DMARC strategies: one query, one phrase
QueryRecordType(type, field, at) ==
    /\ pc = at
    /\ \E out \in QueryOutcome(type) :
        /\ result' = [result EXCEPT
                        ![field] = FormatOutcome(type, out),
                        !.errors = AppendError(@, type, <<>>, out)]
        /\ qlog' = Append(qlog, QueryRecord(type, <<>>, out))
        /\ pc' = NextStrategy(type, out)
    /\ UNCHANGED <<call, retval, domain, selectors, auto_discover, argSelectors, argAuto,
                   selIdx, printed, cliVars>>

QueryMX == QueryRecordType("MX", "mx", "mx")

QuerySPF == QueryRecordType("SPF", "spf", "spf")

QueryDMARC == QueryRecordType("DMARC", "dmarc", "dmarc")

\* Selector discovery, step 3: nothing to try, no query
DkimNoSelectors ==
    /\ pc = "dkim"
    /\ DiscoveryList(argSelectors.list, argAuto) = <<>>
    /\ result' = [result EXCEPT !.dkim = NoSelectorsProvided]
    /\ pc' = "display"
    /\ UNCHANGED <<call, retval, domain, selectors, auto_discover, argSelectors, argAuto,
                   selIdx, qlog, printed, cliVars>>

\* Selector discovery, steps 1 and 2: query the next selector of the list
QueryDKIM ==
    /\ pc = "dkim"
    /\ DiscoveryList(argSelectors.list, argAuto) # <<>>
    /\ LET list == DiscoveryList(argSelectors.list, argAuto)
           sel  == SelectorAt(list, selIdx)
       IN \E out \in QueryOutcome("DKIM") :
            /\ qlog' = Append(qlog, QueryRecord("DKIM", sel, out))
            /\ IF StopsDiscovery(out)
               THEN /\ result' = [result EXCEPT
                                    !.dkim = FormatOutcome("DKIM", out),
                                    !.errors = AppendError(@, "DKIM", sel, out)]
                    /\ selIdx' = selIdx
                    /\ pc' = "display"
               ELSE IF selIdx >= Len(list)
               THEN /\ result' = [result EXCEPT
                                    !.dkim = NoneMatched(argSelectors.list),
                                    !.errors = AppendError(@, "DKIM", sel, out)]
                    /\ selIdx' = selIdx
                    /\ pc' = "display"
               ELSE /\ result' = [result EXCEPT
                                    !.errors = AppendError(@, "DKIM", sel, out)]
                    /\ selIdx' = selIdx + 1
                    /\ pc' = "dkim"
    /\ UNCHANGED <<call, retval, domain, selectors, auto_discover, argSelectors, argAuto,
                   printed, cliVars>>

\* process_single_domain, lines 161-196: the four printed lines
Display ==
    /\ pc = "display"
    /\ printed' = PrintResult(result)
    /\ pc' = "write"
    /\ UNCHANGED <<call, retval, domain, selectors, auto_discover, argSelectors, argAuto,
                   selIdx, result, qlog, cliVars>>

Next ==
    \/ CallCheck
    \/ QueryMX
    \/ QuerySPF
    \/ QueryDMARC
    \/ DkimNoSelectors
    \/ QueryDKIM
    \/ Display

Spec == Init /\ [][Next]_vars

---------------------------------------------------------------------------
(* SpecCli: main, process_single_domain and process_multiple_domains as    *)
(* written, with perform_complete_dns_check as one step that returns a     *)
(* DomainResult or raises                                                  *)

DomainPool == << <<"a",".","c","o","m">>, <<"b",".","o","r","g">>, <<"c",".","n","e","t">>, <<"d",".","i","o">>, <<"e",".","d","e">> >>

\* cleanup_domains_list returns a sorted, duplicate-free list
DomainLists ==
    { SubSeq(DomainPool, 1, n) :
        n \in 0..(IF MaxDomains < Len(DomainPool) THEN MaxDomains
                  ELSE Len(DomainPool)) }

\* Results the engine returns for domain d: every record present, and a
\* timeout on MX with nothing else found
SampleResults(d) ==
    LET mxFound  == [kind |-> "Found", text |-> <<"m","x",".","a",".","c","o","m">>]
        spfFound == [kind |-> "Found", text |-> <<"v","=","s","p","f","1"," ","-","a","l","l">>]
        dmFound  == [kind |-> "Found", text |-> <<"v","=","D","M","A","R","C","1",";"," ","p","=","n","o","n","e">>]
        timeout  == [kind |-> "Timeout", text |-> <<>>]
        absent   == [kind |-> "NotFound", text |-> <<>>]
    IN { [domain |-> d,
          mx     |-> FormatOutcome("MX", mxFound),
          spf    |-> FormatOutcome("SPF", spfFound),
          dkim   |-> NoSelectorsProvided,
          dmarc  |-> FormatOutcome("DMARC", dmFound),
          errors |-> <<>>],
         [domain |-> d,
          mx     |-> FormatOutcome("MX", timeout),
          spf    |-> FormatOutcome("SPF", absent),
          dkim   |-> NoSelectorsProvided,
          dmarc  |-> FormatOutcome("DMARC", absent),
          errors |-> AppendError(<<>>, "MX", <<>>, timeout)] }

\* How a call of perform_complete_dns_check can end for its caller, whose
\* try statement handles all three
CallEnds == {"returns", "Exception", "KeyboardInterrupt"}

\* A file left by an earlier run
OldFile ==
    [exists |-> TRUE,
     rows   |-> <<HeaderRow,
                  << <<"o","l","d",".","c","o","m">>, <<"m","x",".","o","l","d",".","c","o","m">>, <<"v","=","s","p","f","1"," ","-","a","l","l">>,
                     NoSelectorsProvided, <<"N","o"," ","D","M","A","R","C"," ","r","e","c","o","r","d"," ","f","o","u","n","d">> >> >>]

InitCli ==
    /\ call = NoCall
    /\ retval = <<>>
    /\ domains \in DomainLists
    /\ skip_errors \in BOOLEAN
    /\ append \in BOOLEAN
    /\ csvFile \in {NoFile, OldFile}
    /\ pc = "main"
    /\ domain = <<>>
    /\ selectors = <<>>
    /\ auto_discover = FALSE
    /\ argSelectors = [none |-> TRUE, list |-> <<>>]
    /\ argAuto = FALSE
    /\ selIdx = 1
    /\ result = EmptyResult(<<>>)
    /\ qlog = <<>>
    /\ printed = NoPrint
    /\ i = 1
    /\ results = <<>>
    /\ successful = 0
    /\ failed = 0
    /\ exitStatus = "running"
    /\ checked = <<>>
    /\ csvCalls = <<>>

\* sys.exit(1), or the SystemExit of a fatal print_error
Exit1 ==
    /\ exitStatus' = "exit1"
    /\ pc' = "exited"

\* main returns
Exit0 ==
    /\ exitStatus' = "exit0"
    /\ pc' = "exited"

\* main, lines 349-364
Main ==
    /\ pc = "main"
    /\ IF domains = <<>>
       THEN \* lines 352-354: print_error(...), then sys.exit(1)
            /\ Exit1
            /\ UNCHANGED domain
       ELSE IF Len(domains) = 1
       THEN /\ pc' = "single"
            /\ domain' = domains[1]
            /\ UNCHANGED exitStatus
       ELSE /\ pc' = "batch"
            /\ UNCHANGED <<domain, exitStatus>>
    /\ UNCHANGED <<call, retval, selectors, auto_discover, argSelectors, argAuto, selIdx,
                   result, qlog, printed, domains, skip_errors, append, i,
                   results, successful, failed, csvFile, checked, csvCalls>>

\* A call write_results_to_csv(rs, append=append) under some fault; ret is
\* how it ended
WriteCsv(rs, ret) ==
    \E fault \in Faults :
        LET w == write_results_to_csv(rs, append, csvFile, fault) IN
        /\ ret = w.ret
        /\ csvFile' = w.file
        /\ csvCalls' = Append(csvCalls, CsvCall("write", rs, append, fault, w.ret))

\* process_single_domain (lines 157-216) and main's sys.exit (lines 359-361)
SingleDomain ==
    /\ pc = "single"
    /\ \E how \in CallEnds :
        /\ checked' = Append(checked, [domain |-> domain, how |-> how])
        /\ IF how = "returns"
           THEN \E r \in SampleResults(domain), ret \in {"True", "False", "SystemExit"} :
                  /\ result' = r
                  /\ printed' = PrintResult(r)
                  /\ WriteCsv(<<r>>, ret)
                  /\ IF ret = "True" THEN Exit0 ELSE Exit1
           ELSE \* both except clauses: print_error(...), return False
                /\ Exit1
                /\ UNCHANGED <<result, printed, csvFile, csvCalls>>
    /\ UNCHANGED <<call, retval, domain, selectors, auto_discover, argSelectors, argAuto,
                   selIdx, qlog, domains, skip_errors, append, i, results,
                   successful, failed>>

\* The loop's next position
LoopNext == IF i >= Len(domains) THEN "batch_end" ELSE "batch"

\* The tail shared by both except clauses of the loop, lines 291-294 and
\* 302-305: write what was collected, then sys.exit(1)
WriteCollectedAndExit ==
    /\ IF results # <<>>
       THEN \E ret \in {"True", "False", "SystemExit"} : WriteCsv(results, ret)
       ELSE UNCHANGED <<csvFile, csvCalls>>
    /\ Exit1

\* process_multiple_domains, lines 244-305: one iteration of the loop
BatchIteration ==
    /\ pc = "batch"
    /\ i <= Len(domains)
    /\ \E how \in CallEnds :
        /\ checked' = Append(checked, [domain |-> domains[i], how |-> how])
        /\ CASE how = "returns" ->
                  \E r \in SampleResults(domains[i]) :
                    /\ results' = Append(results, r)
                    /\ successful' = successful + 1
                    /\ printed' = PrintResult(r)
                    /\ i' = i + 1
                    /\ pc' = LoopNext
                    /\ UNCHANGED <<failed, csvFile, csvCalls, exitStatus>>
             [] how = "KeyboardInterrupt" ->
                  \* line 290: print_error("\nInterrupted by user")
                  /\ IF print_error(DefaultFatal) = "SystemExit"
                     THEN Exit1 /\ UNCHANGED <<csvFile, csvCalls>>
                     ELSE WriteCollectedAndExit
                  /\ UNCHANGED <<results, successful, failed, printed, i>>
             [] how = "Exception" ->
                  /\ failed' = failed + 1
                  \* line 298: print_error(f"  x {error_msg}")
                  /\ IF print_error(DefaultFatal) = "SystemExit"
                     THEN Exit1 /\ UNCHANGED <<csvFile, csvCalls, i>>
                     ELSE IF ~skip_errors
                     THEN \* line 301: print_error("Stopping due to error ...")
                          /\ IF print_error(DefaultFatal) = "SystemExit"
                             THEN Exit1 /\ UNCHANGED <<csvFile, csvCalls>>
                             ELSE WriteCollectedAndExit
                          /\ UNCHANGED i
                     ELSE /\ i' = i + 1
                          /\ pc' = LoopNext
                          /\ UNCHANGED <<csvFile, csvCalls, exitStatus>>
                  /\ UNCHANGED <<results, successful, printed>>
    /\ UNCHANGED <<call, retval, domain, selectors, auto_discover, argSelectors, argAuto,
                   selIdx, result, qlog, domains, skip_errors, append>>

\* process_multiple_domains, lines 307-318: after the loop
BatchFinish ==
    /\ pc = "batch_end"
    /\ IF results # <<>>
       THEN \E ret \in {"True", "False", "SystemExit"} :
              /\ WriteCsv(results, ret)
              /\ CASE ret = "True" -> Exit0
                   [] ret = "SystemExit" -> Exit1
                   [] ret = "False" ->
                        \* line 316: print_error("Failed to write results to CSV")
                        IF print_error(DefaultFatal) = "SystemExit"
                        THEN Exit1 ELSE Exit0
       ELSE \* line 318: print_error("No results to write")
            /\ IF print_error(DefaultFatal) = "SystemExit" THEN Exit1 ELSE Exit0
            /\ UNCHANGED <<csvFile, csvCalls>>
    /\ UNCHANGED <<call, retval, domain, selectors, auto_discover, argSelectors, argAuto,
                   selIdx, result, qlog, printed, domains, skip_errors, append,
                   i, results, successful, failed, checked>>

NextCli ==
    \/ Main
    \/ SingleDomain
    \/ BatchIteration
    \/ BatchFinish

SpecCli == InitCli /\ [][NextCli]_vars

---------------------------------------------------------------------------
(* SpecCsv: any sequence of csv_helper calls on the output file            *)

\* Result lists a caller passes: none, one result, two results
ResultLists ==
    {<<>>}
    \cup { <<r>> : r \in SampleResults(DomainPool[1]) }
    \cup { <<r, s>> : r \in SampleResults(DomainPool[1]),
                      s \in SampleResults(DomainPool[2]) }

InitCsv ==
    /\ call = NoCall
    /\ retval = <<>>
    /\ csvFile = NoFile
    /\ pc = "csv"
    /\ exitStatus = "running"
    /\ csvCalls = <<>>
    /\ domains = <<>>
    /\ skip_errors = FALSE
    /\ append = FALSE
    /\ domain = <<>>
    /\ selectors = <<>>
    /\ auto_discover = FALSE
    /\ argSelectors = [none |-> TRUE, list |-> <<>>]
    /\ argAuto = FALSE
    /\ selIdx = 1
    /\ result = EmptyResult(<<>>)
    /\ qlog = <<>>
    /\ printed = NoPrint
    /\ i = 1
    /\ results = <<>>
    /\ successful = 0
    /\ failed = 0
    /\ checked = <<>>

csvFrame ==
    <<call, retval, domain, selectors, auto_discover, argSelectors, argAuto, selIdx, result,
      qlog, printed, domains, skip_errors, append, i, results, successful,
      failed, checked>>

\* The caller after a call that ended ret: a SystemExit ends the process
AfterCall(ret) ==
    IF ret = "SystemExit"
    THEN Exit1
    ELSE UNCHANGED <<pc, exitStatus>>

\* A call of create_csv_file_with_header(filepath)
CallCreate ==
    /\ pc = "csv"
    /\ Len(csvCalls) < MaxCalls
    /\ \E fault \in Faults :
        LET c == create_csv_file_with_header(csvFile, fault) IN
        /\ csvFile' = c.file
        /\ csvCalls' = Append(csvCalls, CsvCall("create", <<>>, FALSE, fault, c.ret))
        /\ AfterCall(c.ret)
    /\ UNCHANGED csvFrame

\* A call of write_results_to_csv(results, append)
CallWrite ==
    /\ pc = "csv"
    /\ Len(csvCalls) < MaxCalls
    /\ \E rs \in ResultLists, app \in BOOLEAN, fault \in Faults :
        LET w == write_results_to_csv(rs, app, csvFile, fault) IN
        /\ csvFile' = w.file
        /\ csvCalls' = Append(csvCalls, CsvCall("write", rs, app, fault, w.ret))
        /\ AfterCall(w.ret)
    /\ UNCHANGED csvFrame

NextCsv ==
    \/ CallCreate
    \/ CallWrite

SpecCsv == InitCsv /\ [][NextCsv]_vars

---------------------------------------------------------------------------
(* Properties of the resolution engine and of the display, under Spec      *)

\* The engine has returned its DomainResult
Returned == pc \in {"display", "write"}

DkimQueries == SelectSeq(qlog, LAMBDA q : q.type = "DKIM")

FailedQueries ==
    SelectSeq(qlog, LAMBDA q : q.out.kind \in {"Timeout", "QueryError"})

Queried(type) == \E k \in 1..Len(qlog) : qlog[k].type = type

QueryCount(type) == Cardinality({k \in 1..Len(qlog) : qlog[k].type = type})

\* The list the user's arguments ask discovery to walk
RequestedList ==
    IF selectors # <<>> THEN selectors
    ELSE IF auto_discover THEN CandidateSelectors
    ELSE <<>>

FieldOf(type) ==
    CASE type = "MX"    -> result.mx
      [] type = "SPF"   -> result.spf
      [] type = "DMARC" -> result.dmarc
      [] type = "DKIM"  -> result.dkim

\* C1: checkDomain attempts all four record families whatever the outcomes
\* of the others: once a strategy has run (with any outcome) its field is
\* set and the next one is still run, and the result returned has every
\* field filled, exactly one MX, SPF and DMARC query behind it, and the DKIM
\* discovery behind its dkim field.
C1_AllFamiliesAttempted ==
    /\ pc \in {"spf", "dmarc", "dkim", "display", "write"} =>
          QueryCount("MX") = 1 /\ result.mx # <<>>
    /\ pc \in {"dmarc", "dkim", "display", "write"} =>
          QueryCount("SPF") = 1 /\ result.spf # <<>>
    /\ pc \in {"dkim", "display", "write"} =>
          QueryCount("DMARC") = 1 /\ result.dmarc # <<>>
    /\ Returned =>
          /\ result.dkim # <<>>
          /\ RequestedList # <<>> => Queried("DKIM")
          /\ result.domain = domain
    /\ pc \in {"call", "mx", "spf", "dmarc", "dkim"} => ENABLED Next

\* C1 witness: MX ended in QueryError, SPF in Timeout, DMARC in NXDOMAIN, and
\* DKIM was still queried and the result returned.
C1_Witness ==
    /\ pc = "write"
    /\ Len(qlog) >= 4
    /\ qlog[1].type = "MX" /\ qlog[1].out.kind = "QueryError"
    /\ qlog[2].type = "SPF" /\ qlog[2].out.kind = "Timeout"
    /\ qlog[3].type = "DMARC" /\ qlog[3].out.kind = "NonexistentDomain"
    /\ qlog[4].type = "DKIM"
    /\ result.dkim # <<>>

\* C4: selector discovery queries the selectors of the list (the user's, or
\* the candidate list under auto-discovery) in list order, no selector is
\* queried after a Found one, and the dkim field is the value of the first
\* Found selector; with no Found selector the whole list was queried.
C4_FirstMatchWins ==
    LET dq == DkimQueries IN
    /\ Len(dq) <= Len(RequestedList)
    /\ \A k \in 1..Len(dq) : dq[k].selector = RequestedList[k]
    /\ \A k \in 1..(Len(dq) - 1) : dq[k].out.kind # "Found"
    /\ (Returned /\ RequestedList # <<>>) =>
          \/ /\ dq[Len(dq)].out.kind = "Found"
             /\ result.dkim = dq[Len(dq)].out.text
          \/ /\ Len(dq) = Len(RequestedList)
             /\ \A k \in 1..Len(dq) : dq[k].out.kind # "Found"
             /\ result.dkim \in {NoValidSelectors, NoDkimTested}

\* C4 witness: a list of two explicit selectors whose first is Found: it is
\* reported and the second is never queried.
C4_Witness ==
    /\ pc = "write"
    /\ Len(selectors) = 2
    /\ Len(DkimQueries) = 1
    /\ DkimQueries[1].selector = selectors[1]
    /\ DkimQueries[1].out.kind = "Found"
    /\ result.dkim = DkimQueries[1].out.text

\* C5: with no selectors and auto-discovery off, no DKIM query is issued and
\* dkim is exactly "No selectors provided", whatever MX, SPF and DMARC gave.
C5_NoSelectorsNoQuery ==
    (Returned /\ selectors = <<>> /\ ~auto_discover) =>
        /\ QueryCount("DKIM") = 0
        /\ result.dkim = <<"N","o"," ","s","e","l","e","c","t","o","r","s"," ","p","r","o","v","i","d","e","d">>

\* C5 witness: such a call, returned, with MX in QueryError and SPF in Timeout.
C5_Witness ==
    /\ pc = "write"
    /\ selectors = <<>>
    /\ ~auto_discover
    /\ qlog[1].out.kind = "QueryError"
    /\ qlog[2].out.kind = "Timeout"
    /\ result.dkim = <<"N","o"," ","s","e","l","e","c","t","o","r","s"," ","p","r","o","v","i","d","e","d">>

AllNxdomain == \A k \in 1..Len(qlog) : qlog[k].out.kind = "NonexistentDomain"

C8_AbsenceIsNotAnError ==
    /\ Len(result.errors) = Len(FailedQueries)
    /\ \A k \in 1..Len(qlog) :
          (qlog[k].type = "DMARC" /\ qlog[k].out.kind = "NotFound") =>
              result.dmarc = <<"N","o"," ","D","M","A","R","C"," ","r","e","c","o","r","d"," ","f","o","u","n","d">>
    /\ (/\ Returned
        /\ selectors = <<>>
        /\ auto_discover
        /\ \A k \in 1..Len(DkimQueries) : DkimQueries[k].out.kind # "Found") =>
          result.dkim =
              <<"N","o"," ","D","K","I","M"," ","r","e","c","o","r","d"," ","f","o","u","n","d"," ","U+2014"," ","t","e","s","t","e","d"," ","c","o","m","m","o","n"," ","s","e","l","e","c","t","o","r","s",":"," ">>
                  \o join(<<","," ">>, CandidateSelectors)

\* C8 witness: an auto-discovery run in which every query, the candidates
\* included, ended NotFound, and errors is empty.
C8_Witness ==
    /\ pc = "write"
    /\ selectors = <<>>
    /\ auto_discover
    /\ Len(DkimQueries) = Len(CandidateSelectors)
    /\ \A k \in 1..Len(qlog) : qlog[k].out.kind = "NotFound"
    /\ result.errors = <<>>
    /\ result.dmarc = <<"N","o"," ","D","M","A","R","C"," ","r","e","c","o","r","d"," ","f","o","u","n","d">>

\* The outcome behind a field of the returned result
OutcomeKind(type) ==
    IF type = "DKIM"
    THEN IF DkimQueries = <<>> THEN "NoQuery"
         ELSE IF DkimQueries[Len(DkimQueries)].out.kind = "Found" THEN "Found"
         ELSE "NoneFound"
    ELSE (CHOOSE q \in {qlog[k] : k \in 1..Len(qlog)} : q.type = type).out.kind

\* C9: the printed class of each field agrees with its outcome: Found is
\* printed as found, NotFound, NonexistentDomain, Timeout and QueryError as
\* not found, and "No selectors provided" as partial.
C9_DisplayAgrees ==
    pc = "write" =>
        /\ \A f \in {<<"MX", printed.mx>>, <<"SPF", printed.spf>>,
                     <<"DMARC", printed.dmarc>>} :
              f[2] = (IF OutcomeKind(f[1]) = "Found" THEN "found"
                      ELSE "not_found")
        /\ printed.dkim =
              (CASE OutcomeKind("DKIM") = "Found" -> "found"
                 [] OutcomeKind("DKIM") = "NoQuery" -> "partial"
                 [] OTHER -> "not_found")

---------------------------------------------------------------------------
(* Properties of the batch run, under SpecCli                              *)

Raised == \E k \in 1..Len(checked) : checked[k].how # "returns"

WrittenWith(rs) ==
    \E k \in 1..Len(csvCalls) :
        csvCalls[k].op = "write" /\ csvCalls[k].results = rs

\* C2: in process_multiple_domains, when checking domain k > 1 raises or is
\* interrupted, the results collected for the domains before it are written
\* to the CSV before the run ends, for both values of skip_errors.
C2_PriorResultsWritten ==
    (/\ exitStatus # "running"
     /\ Len(domains) > 1
     /\ Raised
     /\ results # <<>>) => WrittenWith(results)

\* C3: with skip_errors, process_multiple_domains continues after a domain
\* whose check raises an exception: every domain is attempted exactly once,
\* the failed ones are counted in failed, and the results of the successful
\* ones are written to the CSV at the end.
C3_SkipErrorsContinues ==
    (/\ exitStatus # "running"
     /\ Len(domains) > 1
     /\ skip_errors
     /\ \A k \in 1..Len(checked) : checked[k].how # "KeyboardInterrupt") =>
        /\ Len(checked) = Len(domains)
        /\ \A k \in 1..Len(domains) : checked[k].domain = domains[k]
        /\ failed = Cardinality({k \in 1..Len(checked) :
                                    checked[k].how = "Exception"})
        /\ Len(results) = Cardinality({k \in 1..Len(checked) :
                                          checked[k].how = "returns"})
        /\ results # <<>> => WrittenWith(results)

---------------------------------------------------------------------------
(* Properties of csv_helper, under SpecCsv                                 *)

\* C10: write_results_to_csv returns True if the write succeeded and False
\* otherwise: for an empty result list, a PermissionError or any other
\* exception it returns False, and it neither raises nor ends the process.
C10_WriteReturnsBool ==
    /\ \A k \in 1..Len(csvCalls) :
          csvCalls[k].op = "write" =>
              csvCalls[k].ret =
                  (IF csvCalls[k].results # <<>> /\ csvCalls[k].fault = "none"
                   THEN "True" ELSE "False")
    /\ (\A k \in 1..Len(csvCalls) : csvCalls[k].op = "write") =>
          exitStatus = "running"

\* The file is absent, or its first row is the header, no later row is, and
\* every later row has five columns
WellFormed(file) ==
    \/ ~file.exists
    \/ /\ Len(file.rows) >= 1
       /\ file.rows[1] = HeaderRow
       /\ \A k \in 2..Len(file.rows) :
             /\ file.rows[k] # HeaderRow
             /\ Len(file.rows[k]) = 5

---------------------------------------------------------------------------
(* Helper functions, each under a specification that calls it on every     *)
(* input of a bounded set                                                  *)

\* Every variable of the command line and the engine at rest
Idle ==
    /\ domain = <<>>
    /\ selectors = <<>>
    /\ auto_discover = FALSE
    /\ argSelectors = [none |-> TRUE, list |-> <<>>]
    /\ argAuto = FALSE
    /\ selIdx = 1
    /\ result = EmptyResult(<<>>)
    /\ qlog = <<>>
    /\ printed = NoPrint
    /\ domains = <<>>
    /\ skip_errors = FALSE
    /\ append = FALSE
    /\ i = 1
    /\ results = <<>>
    /\ successful = 0
    /\ failed = 0
    /\ csvFile = NoFile
    /\ exitStatus = "running"
    /\ checked = <<>>
    /\ csvCalls = <<>>

idleVars ==
    <<domain, selectors, auto_discover, argSelectors, argAuto, selIdx, result,
      qlog, printed, domains, skip_errors, append, i, results, successful,
      failed, csvFile, exitStatus, checked, csvCalls>>

\* All sequences over alphabet of length at most n
StringsUpTo(alphabet, n) == UNION { [1..k -> alphabet] : k \in 0..n }

(* SpecReplace: replace_characters with its default arguments, applied     *)
(* once and then again to its own result                                   *)

\* replace_characters(record_to_check, char_to_replace=";", new_char=",")
DefaultCharToReplace == ";"

DefaultNewChar == ","

RecordAlphabet == {"v", " ", ";", ","}

InitReplace ==
    /\ Idle
    /\ pc = "replace"
    /\ call \in [fn : {"replace_characters"},
                 record_to_check : StringsUpTo(RecordAlphabet, MaxRecordLen)]
    /\ retval = <<>>

\* replace_characters(record)
Replace ==
    /\ pc = "replace"
    /\ retval' = replace_characters(call.record_to_check,
                                    DefaultCharToReplace, DefaultNewChar)
    /\ pc' = "replaced"
    /\ UNCHANGED <<call, idleVars>>

\* replace_characters(replace_characters(record)): the call on the result
ReplaceAgain ==
    /\ pc = "replaced"
    /\ call' = [call EXCEPT !.record_to_check = retval]
    /\ retval' = replace_characters(retval, DefaultCharToReplace, DefaultNewChar)
    /\ pc' = "replaced_again"
    /\ UNCHANGED idleVars

NextReplace ==
    \/ Replace
    \/ ReplaceAgain

SpecReplace == InitReplace /\ [][NextReplace]_vars

\* C11: replace_characters with its defaults replaces every ';' by ',' and
\* alters nothing else: the result has the length of the input, holds no
\* ';', holds ',' where the input held ';' and the input's character
\* everywhere else; applied to its own result it returns that result.
C11_SanitizeOnlySemicolons ==
    /\ pc \in {"replaced", "replaced_again"} =>
          /\ Len(retval) = Len(call.record_to_check)
          /\ \A k \in 1..Len(retval) :
                /\ retval[k] # ";"
                /\ call.record_to_check[k] = ";" => retval[k] = ","
                /\ call.record_to_check[k] # ";" =>
                      retval[k] = call.record_to_check[k]
    /\ pc = "replaced_again" => retval = call.record_to_check

\* C11 witness: a record with two ';' sanitized, its other character kept.
C11_Witness ==
    /\ pc = "replaced"
    /\ call.record_to_check = <<";","v",";">>
    /\ retval = <<",","v",",">>

---------------------------------------------------------------------------
(* SpecParse: parse_selectors on every pair of --selector and --selectors  *)
(* values of a bounded set                                                 *)

\* Characters str.strip() removes
Whitespace == {" ", "\t", "\n", "\r", "\f"}

RECURSIVE lstrip(_)
lstrip(s) ==
    IF s # <<>> /\ Head(s) \in Whitespace THEN lstrip(Tail(s)) ELSE s

RECURSIVE rstrip(_)
rstrip(s) ==
    IF s # <<>> /\ s[Len(s)] \in Whitespace
    THEN rstrip(SubSeq(s, 1, Len(s) - 1))
    ELSE s

\* str.strip()
strip(s) == rstrip(lstrip(s))

\* str.split(sep): "".split(",") is [""]
RECURSIVE split(_, _)
split(s, sep) ==
    IF \A k \in 1..Len(s) : s[k] # sep
    THEN <<s>>
    ELSE LET p == CHOOSE k \in 1..Len(s) :
                      /\ s[k] = sep
                      /\ \A j \in 1..(k - 1) : s[j] # sep
         IN <<SubSeq(s, 1, p - 1)>> \o split(SubSeq(s, p + 1, Len(s)), sep)

\* the seen / unique loop: duplicates removed, order of first occurrence kept
RECURSIVE RemoveDuplicates(_)
RemoveDuplicates(list) ==
    IF list = <<>> THEN <<>>
    ELSE LET front == RemoveDuplicates(SubSeq(list, 1, Len(list) - 1))
             last  == list[Len(list)]
         IN IF \E k \in 1..Len(front) : front[k] = last
            THEN front
            ELSE Append(front, last)

\* An argparse str argument: None when the option is not given
NoneArg == [none |-> TRUE, str |-> <<>>]

StrArg(s) == [none |-> FALSE, str |-> s]

\* truth value of "arg and arg.strip()"
GivenAndNotBlank(arg) == ~arg.none /\ arg.str # <<>> /\ strip(arg.str) # <<>>

\* the list parse_selectors builds before it removes duplicates
collect_selectors(selector_arg, selectors_arg) ==
    LET single   == IF GivenAndNotBlank(selector_arg)
                    THEN <<strip(selector_arg.str)>>
                    ELSE <<>>
        parts    == split(selectors_arg.str, ",")
        stripped == [k \in 1..Len(parts) |-> strip(parts[k])]
        multiple == IF GivenAndNotBlank(selectors_arg)
                    THEN SelectSeq(stripped, LAMBDA s : s # <<>>)
                    ELSE <<>>
    IN single \o multiple

\* Mutant of parse_selectors: duplicates are not removed
parse_selectors_keep_duplicates(selector_arg, selectors_arg) ==
    collect_selectors(selector_arg, selectors_arg)

parse_selectors(selector_arg, selectors_arg) ==
    RemoveDuplicates(collect_selectors(selector_arg, selectors_arg))

ArgAlphabet == {"s", "t", " ", ","}

ArgValues == {NoneArg} \cup { StrArg(s) : s \in StringsUpTo(ArgAlphabet, MaxArgLen) }

InitParse ==
    /\ Idle
    /\ pc = "parse"
    /\ call \in [fn : {"parse_selectors"},
                 selector_arg : ArgValues,
                 selectors_arg : ArgValues]
    /\ retval = <<>>

\* selectors = parse_selectors(args.selector, args.selectors)
ParseSelectors ==
    /\ pc = "parse"
    /\ retval' = parse_selectors(call.selector_arg, call.selectors_arg)
    /\ pc' = "parsed"
    /\ UNCHANGED <<call, idleVars>>

NextParse == ParseSelectors

SpecParse == InitParse /\ [][NextParse]_vars

\* s without its leading and trailing whitespace, by positions
Trimmed(s) ==
    LET solid == { k \in 1..Len(s) : s[k] \notin Whitespace }
    IN IF solid = {} THEN <<>>
       ELSE SubSeq(s, CHOOSE a \in solid : \A k \in solid : a <= k,
                      CHOOSE b \in solid : \A k \in solid : k <= b)

\* The entries of a comma-separated value: every maximal comma-free stretch,
\* as [from, to] with to = from - 1 for an empty one
Entries(s) ==
    { e \in [from : 1..(Len(s) + 1), to : 0..Len(s)] :
        /\ e.to >= e.from - 1
        /\ \A k \in e.from..e.to : s[k] # ","
        /\ e.from = 1 \/ s[e.from - 1] = ","
        /\ e.to = Len(s) \/ s[e.to + 1] = "," }

\* Where the selector x first occurs: 0 as the --selector value, else the
\* start of its first entry in --selectors
FirstOccurrence(x, selector_arg, selectors_arg) ==
    IF ~selector_arg.none /\ Trimmed(selector_arg.str) = x
    THEN 0
    ELSE LET at == { e.from : e \in { e \in Entries(selectors_arg.str) :
                        Trimmed(SubSeq(selectors_arg.str, e.from, e.to)) = x } }
         IN CHOOSE a \in at : \A b \in at : a <= b

\* Every non-blank selector the two arguments hold, trimmed
GivenSelectors(selector_arg, selectors_arg) ==
    ( { Trimmed(selector_arg.str) }
      \cup { Trimmed(SubSeq(selectors_arg.str, e.from, e.to)) :
               e \in Entries(selectors_arg.str) } ) \ { <<>> }

\* C12: parse_selectors returns every non-empty trimmed selector of --selector
\* and --selectors exactly once, in order of first occurrence with the
\* --selector value ahead of the --selectors entries: no duplicate, no empty
\* string, and an empty list exactly when neither argument holds a non-blank
\* selector.
C12_SelectorsOnceInOrder ==
    pc = "parsed" =>
        LET given == GivenSelectors(call.selector_arg, call.selectors_arg)
            first(x) == FirstOccurrence(x, call.selector_arg, call.selectors_arg)
        IN /\ { retval[k] : k \in 1..Len(retval) } = given
           /\ \A k \in 1..Len(retval) : retval[k] # <<>>
           /\ \A j, k \in 1..Len(retval) :
                 j < k => /\ retval[j] # retval[k]
                          /\ first(retval[j]) < first(retval[k])
           /\ (retval = <<>>) <=> (given = {})

\* C12 witness: --selector " t" and --selectors "s,t" give ["t", "s"]: the
\* --selector value is trimmed, comes first, and its repetition is dropped.
C12_Witness ==
    /\ pc = "parsed"
    /\ call.selector_arg = StrArg(<<" ","t">>)
    /\ call.selectors_arg = StrArg(<<"s",",","t">>)
    /\ retval = << <<"t">>, <<"s">> >>

---------------------------------------------------------------------------
(* SpecMain: main from cleanup_domains_list (line 350) on, for every       *)
(* domain list of a bounded set                                            *)

\* Characters in ascending code point order, the order str comparison uses
CodePointOrder ==
    <<" ", ".", "A", "B", "C", "G", "M", "O", "R",
      "a", "b", "c", "g", "m", "o", "r">>

ord(c) == CHOOSE k \in 1..Len(CodePointOrder) : CodePointOrder[k] = c

\* a < b on str: at the first position where they differ a ends or holds
\* the smaller character
StrLess(a, b) ==
    \E k \in 1..Len(b) :
        /\ k - 1 <= Len(a)
        /\ \A j \in 1..(k - 1) : a[j] = b[j]
        /\ k > Len(a) \/ ord(a[k]) < ord(b[k])

\* list.sort(), on a list without duplicates
RECURSIVE sort(_)
sort(list) ==
    IF list = <<>> THEN <<>>
    ELSE LET front  == sort(SubSeq(list, 1, Len(list) - 1))
             last   == list[Len(list)]
             before == SelectSeq(front, LAMBDA d : StrLess(d, last))
             after  == SelectSeq(front, LAMBDA d : ~StrLess(d, last))
         IN before \o <<last>> \o after

\* cleaned = [d.strip().lower() for d in domains if d.strip()]
CleanedDomains(list) ==
    LET kept == SelectSeq(list, LAMBDA d : strip(d) # <<>>)
    IN [k \in 1..Len(kept) |-> lower(strip(kept[k]))]

\* Mutant of cleanup_domains_list: the list is not sorted
cleanup_domains_list_unsorted(list) ==
    IF list = <<>> THEN <<>>
    ELSE RemoveDuplicates(CleanedDomains(list))

cleanup_domains_list(list) ==
    IF list = <<>> THEN <<>>
    ELSE sort(RemoveDuplicates(CleanedDomains(list)))

\* Entries as they come from --domain or from the domains file
RawDomainPool ==
    { <<"a",".","c","o","m">>, <<"A",".","c","o","m"," ">>, <<"b",".","o","r","g">>, <<" ","B",".","O","R","G">>, <<"a","b",".","c","o","m">>, <<>>, <<" "," ">> }

RawDomainLists == StringsUpTo(RawDomainPool, MaxRawDomains)

InitMain ==
    /\ pc = "cleanup"
    /\ call \in [fn : {"cleanup_domains_list"}, domains : RawDomainLists]
    /\ retval = <<>>
    /\ skip_errors \in BOOLEAN
    /\ domains = <<>>
    /\ append = FALSE
    /\ csvFile = NoFile
    /\ domain = <<>>
    /\ selectors = <<>>
    /\ auto_discover = FALSE
    /\ argSelectors = [none |-> TRUE, list |-> <<>>]
    /\ argAuto = FALSE
    /\ selIdx = 1
    /\ result = EmptyResult(<<>>)
    /\ qlog = <<>>
    /\ printed = NoPrint
    /\ i = 1
    /\ results = <<>>
    /\ successful = 0
    /\ failed = 0
    /\ exitStatus = "running"
    /\ checked = <<>>
    /\ csvCalls = <<>>

\* main, line 350: domains = cleanup_domains_list(domains)
Cleanup ==
    /\ pc = "cleanup"
    /\ retval' = cleanup_domains_list(call.domains)
    /\ domains' = retval'
    /\ pc' = "main"
    /\ UNCHANGED <<call, domain, selectors, auto_discover, argSelectors,
                   argAuto, selIdx, result, qlog, printed, skip_errors, append,
                   i, results, successful, failed, csvFile, exitStatus,
                   checked, csvCalls>>

NextMain ==
    \/ Cleanup
    \/ Main
    \/ SingleDomain
    \/ BatchIteration
    \/ BatchFinish

SpecMain == InitMain /\ [][NextMain]_vars

\* The trimmed, lower-cased, non-empty entries of a domain list
NormalisedDomains(list) ==
    { lower(Trimmed(list[k])) : k \in 1..Len(list) } \ { <<>> }

\* C13: cleanup_domains_list returns the set of trimmed, lower-cased,
\* non-empty input domains as a duplicate-free list in ascending order, and
\* returns its own result unchanged; hence a run checks each distinct domain
\* (compared without case) at most once, in alphabetical order.
C13_CleanSortedOnce ==
    pc # "cleanup" =>
        /\ domains = retval
        /\ { domains[k] : k \in 1..Len(domains) } = NormalisedDomains(call.domains)
        /\ \A j, k \in 1..Len(domains) : j < k => StrLess(domains[j], domains[k])
        /\ cleanup_domains_list(domains) = domains
        /\ Len(checked) <= Len(domains)
        /\ \A k \in 1..Len(checked) : checked[k].domain = domains[k]

\* C13 witness: " B.ORG", "a.com", "A.com " is cleaned to a.com, b.org and
\* the batch run has checked both, in that order.
C13_Witness ==
    /\ call.domains = << <<" ","B",".","O","R","G">>, <<"a",".","c","o","m">>, <<"A",".","c","o","m"," ">> >>
    /\ domains = << <<"a",".","c","o","m">>, <<"b",".","o","r","g">> >>
    /\ Len(checked) = 2
    /\ checked[1].domain = <<"a",".","c","o","m">>
    /\ checked[2].domain = <<"b",".","o","r","g">>
    /\ pc = "batch_end"

---------------------------------------------------------------------------
(* SpecRead: read_domains_from_file on every domains file of a bounded set *)

\* A text file is decoded a buffer at a time: the lines one read of the
\* underlying buffer holds
ChunkLines == 2

\* encodings_to_try
EncodingsToTry ==
    << <<"u","t","f","-","8">>, <<"u","t","f","-","8","-","s","i","g">>, <<"l","a","t","i","n","-","1">>, <<"i","s","o","-","8","8","5","9","-","1">>,
       <<"w","i","n","d","o","w","s","-","1","2","5","2">>, <<"c","p","1","2","5","2">> >>

DecodeError == [ok |-> FALSE, text |-> <<>>]

NonAscii == {"0xC3", "0xA9", "0xE9"}

\* bytes.decode('utf-8'): 0xC3 0xA9 is U+00E9; a lone 0xE9, 0xC3 or 0xA9
\* raises UnicodeDecodeError
RECURSIVE Utf8Decode(_)
Utf8Decode(bytes) ==
    IF bytes = <<>> THEN [ok |-> TRUE, text |-> <<>>]
    ELSE IF Head(bytes) \notin NonAscii
    THEN LET rest == Utf8Decode(Tail(bytes))
         IN IF rest.ok THEN [ok |-> TRUE, text |-> <<Head(bytes)>> \o rest.text]
            ELSE DecodeError
    ELSE IF Len(bytes) >= 2 /\ bytes[1] = "0xC3" /\ bytes[2] = "0xA9"
    THEN LET rest == Utf8Decode(SubSeq(bytes, 3, Len(bytes)))
         IN IF rest.ok THEN [ok |-> TRUE, text |-> <<"U+00E9">> \o rest.text]
            ELSE DecodeError
    ELSE DecodeError

\* bytes.decode('latin-1'), and 'windows-1252' on these bytes: every byte is
\* the character of its own number
SingleByteDecode(bytes) ==
    [ok   |-> TRUE,
     text |-> [k \in 1..Len(bytes) |->
                 CASE bytes[k] = "0xC3" -> "U+00C3"
                   [] bytes[k] = "0xA9" -> "U+00A9"
                   [] bytes[k] = "0xE9" -> "U+00E9"
                   [] OTHER -> bytes[k]]]

Decode(bytes, encoding) ==
    IF encoding \in { <<"u","t","f","-","8">>, <<"u","t","f","-","8","-","s","i","g">> }
    THEN Utf8Decode(bytes)
    ELSE SingleByteDecode(bytes)

NumChunks(lines) == (Len(lines) + ChunkLines - 1) \div ChunkLines

\* The lines of the k-th buffer
Chunk(lines, k) ==
    SubSeq(lines, (k - 1) * ChunkLines + 1,
           IF k * ChunkLines < Len(lines) THEN k * ChunkLines ELSE Len(lines))

ChunkDecodes(lines, k, encoding) ==
    \A j \in 1..Len(Chunk(lines, k)) : Decode(Chunk(lines, k)[j], encoding).ok

\* line 148: the first line looks like a CSV header
LooksLikeCsv(first_line) ==
    /\ Contains(<<",">>, first_line)
    /\ \/ Contains(<<"d","o","m","a","i","n">>, lower(first_line))
       \/ Contains(<<"u","r","l">>, lower(first_line))

\* lines 153-154 and 158-161: the entry a line adds to domains, <<>> if none
CsvEntry(line) == strip(split(line, ",")[1])

TextEntry(line) ==
    IF strip(line) # <<>> /\ Head(strip(line)) = "#" THEN <<>> ELSE strip(line)

\* The body of the try statement, lines 142-161, under one encoding: the
\* list domains afterwards, and whether UnicodeDecodeError was raised
ReadAttempt(lines, encoding, list) ==
    IF lines = <<>>
    THEN [raised |-> FALSE, domains |-> list]
    ELSE IF ~ChunkDecodes(lines, 1, encoding)
    THEN \* file.readline() raises
         [raised |-> TRUE, domains |-> list]
    ELSE LET first_line == strip(Decode(lines[1], encoding).text)
             is_csv     == LooksLikeCsv(first_line)
             good       == { k \in 1..NumChunks(lines) :
                               \A j \in 1..k : ChunkDecodes(lines, j, encoding) }
             last       == IF Cardinality(good) * ChunkLines < Len(lines)
                           THEN Cardinality(good) * ChunkLines
                           ELSE Len(lines)
             from       == IF is_csv THEN 2 ELSE 1
             entries    == [k \in 1..(last - from + 1) |->
                              LET text == Decode(lines[from + k - 1], encoding).text
                              IN IF is_csv THEN CsvEntry(text) ELSE TextEntry(text)]
         IN [raised  |-> Cardinality(good) < NumChunks(lines),
             domains |-> list \o SelectSeq(entries, LAMBDA d : d # <<>>)]

FileLinePool ==
    { <<"a",".","c","o","m">>, <<"#","c">>, <<"D","o","m","a","i","n",",","n">>, <<"b",".","o","r","g",",","1">>,
      <<"c","a","f">> \o <<"0xE9">>, <<"c","a","f">> \o <<"0xC3", "0xA9">> }

InitRead ==
    /\ Idle
    /\ pc = "read"
    /\ call \in [fn : {"read_domains_from_file"},
                 isfile : BOOLEAN,
                 lines : StringsUpTo(FileLinePool, MaxFileLines),
                 encoding : {1},
                 domains : {<<>>}]
    /\ call.isfile \/ call.lines = <<>>
    /\ retval = <<>>

\* lines 132-134: print_error(f"File not found: ..."), return domains
FileNotFound ==
    /\ pc = "read"
    /\ ~call.isfile
    /\ IF print_error(DefaultFatal) = "SystemExit"
       THEN Exit1 /\ UNCHANGED retval
       ELSE /\ retval' = call.domains
            /\ pc' = "returned"
            /\ UNCHANGED exitStatus
    /\ UNCHANGED <<call, domain, selectors, auto_discover, argSelectors,
                   argAuto, selIdx, result, qlog, printed, domains,
                   skip_errors, append, i, results, successful, failed,
                   csvFile, checked, csvCalls>>

\* lines 139-178: one iteration of the loop over encodings_to_try
TryEncoding ==
    /\ pc = "read"
    /\ call.isfile
    /\ LET a == ReadAttempt(call.lines, EncodingsToTry[call.encoding],
                            call.domains)
       IN IF ~a.raised
          THEN \* line 164: return domains
               /\ call' = [call EXCEPT !.domains = a.domains]
               /\ retval' = a.domains
               /\ pc' = "returned"
               /\ UNCHANGED exitStatus
          ELSE IF call.encoding < Len(EncodingsToTry)
          THEN \* lines 166-168: continue
               /\ call' = [call EXCEPT !.domains = a.domains,
                                       !.encoding = @ + 1]
               /\ UNCHANGED <<retval, pc, exitStatus>>
          ELSE \* lines 177-178: print_error(...), return domains
               /\ call' = [call EXCEPT !.domains = a.domains]
               /\ IF print_error(DefaultFatal) = "SystemExit"
                  THEN Exit1 /\ UNCHANGED retval
                  ELSE /\ retval' = a.domains
                       /\ pc' = "returned"
                       /\ UNCHANGED exitStatus
    /\ UNCHANGED <<domain, selectors, auto_discover, argSelectors, argAuto,
                   selIdx, result, qlog, printed, domains, skip_errors,
                   append, i, results, successful, failed, csvFile, checked,
                   csvCalls>>

NextRead ==
    \/ FileNotFound
    \/ TryEncoding

SpecRead == InitRead /\ [][NextRead]_vars

\* C15: read_domains_from_file returns the domains of exactly one decoding
\* pass: when an encoding fails part-way and the next one is tried, what the
\* failed attempt collected is not kept, so the returned list is what the
\* pass of the encoding that succeeded reads from the file.
C15_OneDecodingPass ==
    pc = "returned" =>
        retval = ReadAttempt(call.lines, EncodingsToTry[call.encoding],
                             <<>>).domains

====
